---- MODULE Spec2Model ----
(***************************************************************************)
(* Availability / reservation engine of the appointment-booking assistant. *)
(*                                                                         *)
(* The model covers the in-memory AvailabilityStore and the HTTP endpoints *)
(* built on it (src/src/api/availability_server.py) and the dialogue-side  *)
(* bookAppointment (src/src/services/booking.py, availability.py).         *)
(*                                                                         *)
(* Scheduling: the server runs its handlers as coroutines of one event     *)
(* loop.  No store method suspends (the sweep has no await in it and the   *)
(* lock is never held across a suspension, so acquiring it never waits):   *)
(* each handler runs to completion and is one action here.  The client's   *)
(* bookAppointment makes two HTTP calls and is two actions, between which  *)
(* any other request may be served.                                        *)
(*                                                                         *)
(* Time: the clock counts seconds and advances in steps of TickSeconds;    *)
(* one handler reads one clock value.  Slot start times are minutes since  *)
(* the base date.                                                          *)
(***************************************************************************)
EXTENDS Integers, Sequences, FiniteSets, TLC

VARIABLES
    slots,          \* AvailabilityStore._slots: slot id -> SlotResponse
    reservations,   \* AvailabilityStore._reservations: slot id -> expiry
    now,            \* datetime.now()
    last,           \* the response of the latest request served at this clock reading
    bk,             \* bookAppointment calls in progress, per caller
    race,           \* a burst of concurrent reserve calls on one slot
    owner,          \* history: the caller who placed the entry of a slot in the ledger
    everBooked,     \* history: the slots a booking operation has reported booked
    stale,          \* history: per slot, the caller whose hold another caller's booking removed
    initialized,    \* AvailabilityStore._initialized
    lock,           \* AvailabilityStore._lock: the task that holds it
    tasks,          \* the request-handling tasks of the event loop, each at a point of its coroutine
    workers,        \* the stores of the worker processes that run_server starts
    booking_log     \* the "CALENDAR BOOKING LOG" records that book_appointment has logged

\* the state of the tasks and of the processes
sched == <<initialized, lock, tasks, workers>>

vars == <<slots, reservations, now, last, bk, race, owner, everBooked, stale, sched,
          booking_log>>

----------------------------------------------------------------------------
(* Bounds *)

NumMotives == 2         \* motives of VISIT_MOTIVES that get slots
NumPractitioners == 2   \* practitioners that get slots
NumTimeSlots == 2       \* slot times per day
NumDays == 2            \* day offsets generated (range(14) in the code)
NumTargets == 2         \* catalog slots that requests name
NumClients == 2         \* callers
RaceSize == 3           \* concurrent reserve calls of a burst
TickSeconds == 300      \* granularity of the clock
MaxTime == 600          \* the clock stops advancing here
NumTasks == 2           \* request-handling tasks in flight at once
MaxLog == 2              \* booking records after which no bookAppointment call starts

----------------------------------------------------------------------------
(* Reference data *)

None == "None"

\* src/src/config.py VISIT_MOTIVES: <<id, duration_minutes>>
VISIT_MOTIVES ==
    << <<"first_consultation", 45>>, <<"follow_up", 30>>,
       <<"glasses_renewal", 20>>, <<"lens_trial", 30>>,
       <<"lens_checkup", 20>>, <<"emergency", 30>>,
       <<"cataract_surgery", 60>> >>

\* src/src/config.py VISIT_MOTIVES: the name of each motive, in the same order
VISIT_MOTIVE_NAMES ==
    << "Premiere consultation d'ophtalmologie", "Consultation de suivi d'ophtalmologie",
       "Renouvellement de lunettes", "Essai de lentilles",
       "Bilan lentilles - 1 mois", "Urgence oculaire", "Operation Cataracte" >>

\* initialize(): practitioners, <<name, id>>
practitioners ==
    << <<"Dr. Marie Dubois", "dr-dubois">>,
       <<"Dr. Pierre Martin", "dr-martin">>,
       <<"Dr. Sophie Bernard", "dr-bernard">> >>

\* initialize(): time_slots of a day, in minutes after midnight
time_slots == << 540, 600, 660, 840, 900, 960 >>

Min(a, b) == IF a < b THEN a ELSE b

Motives == SubSeq(VISIT_MOTIVES, 1, Min(NumMotives, Len(VISIT_MOTIVES)))
Practs == SubSeq(practitioners, 1, Min(NumPractitioners, Len(practitioners)))
Times == SubSeq(time_slots, 1, Min(NumTimeSlots, Len(time_slots)))

\* day.weekday() of base_date + day_offset; the base date is taken to be a Friday
Weekday(day_offset) == (4 + day_offset) % 7

\* the days initialize() keeps: weekends are skipped
RECURSIVE KeptDays(_)
KeptDays(n) ==
    IF n = 0 THEN << >>
    ELSE IF Weekday(n - 1) >= 5 THEN KeptDays(n - 1)
         ELSE Append(KeptDays(n - 1), n - 1)

Days == KeptDays(NumDays)

\* The slots initialize() creates, in creation order:
\* for motive / for day / for practitioner / for slot_time.
\* The identifier of a slot is its position in this order (uuid4() in the code).
NumSlots == Len(Motives) * Len(Days) * Len(Practs) * Len(Times)

SlotAt(i) ==
    LET k  == i - 1
        ti == k % Len(Times)
        pi == (k \div Len(Times)) % Len(Practs)
        di == (k \div (Len(Times) * Len(Practs))) % Len(Days)
        mi == k \div (Len(Times) * Len(Practs) * Len(Days))
        start == Days[di + 1] * 1440 + Times[ti + 1]
    IN  [ id |-> i,
          start_time |-> start,
          end_time |-> start + Motives[mi + 1][2],
          practitioner_name |-> Practs[pi + 1][1],
          practitioner_id |-> Practs[pi + 1][2],
          motive_id |-> Motives[mi + 1][1],
          is_available |-> TRUE ]

initialize == [i \in 1..NumSlots |-> SlotAt(i)]

----------------------------------------------------------------------------
(* Inputs *)

UnknownId == NumSlots + 1           \* a uuid that is no slot's
Targets == 1..Min(NumTargets, NumSlots)
RequestIds == Targets \cup {UnknownId}
Clients == 1..NumClients
OneCaller == {c \in Clients : \A x \in Clients : c <= x}
Holds == {300, 600}                 \* reservation_duration_seconds asked of the endpoint
ClientHold == 300                   \* AvailabilityService.reserve_slot asks for 5 minutes

----------------------------------------------------------------------------
(* AvailabilityStore: the methods as functions of the store's fields.      *)
(* A method that changes a field returns the new field beside its result.  *)

\* a ledger without one entry / with one entry set
Without(res, slot_id) == [x \in DOMAIN res \ {slot_id} |-> res[x]]
With(res, slot_id, v) == [x \in DOMAIN res \cup {slot_id} |-> IF x = slot_id THEN v ELSE res[x]]

\* _cleanup_expired_reservations: the ledger after the sweep at time t
_cleanup_expired_reservations(res, t) ==
    LET expired == {slot_id \in DOMAIN res : res[slot_id] < t}
    IN  [x \in DOMAIN res \ expired |-> res[x]]

\* truth value of an Optional[str] argument in "if practitioner_id and ..."
Truthy(str) == str # None /\ str # ""

\* the filter without the test of the motive
Selected_any_motive(slot, res, q) ==
    /\ slot.is_available
    /\ ~(slot.start_time < q.start_date \/ slot.start_time > q.end_date)
    /\ ~(Truthy(q.practitioner_id) /\ slot.practitioner_id # q.practitioner_id)
    /\ ~(slot.id \in DOMAIN res)

\* the filter with a window that excludes its end
Selected_open_window(slot, res, q) ==
    /\ slot.is_available
    /\ ~(slot.motive_id # q.motive_id)
    /\ ~(slot.start_time < q.start_date \/ slot.start_time >= q.end_date)
    /\ ~(Truthy(q.practitioner_id) /\ slot.practitioner_id # q.practitioner_id)
    /\ ~(slot.id \in DOMAIN res)

\* the filter of get_availabilities: the slot is appended to results
Selected(slot, res, q) ==
    /\ slot.is_available
    /\ ~(slot.motive_id # q.motive_id)
    /\ ~(slot.start_time < q.start_date \/ slot.start_time > q.end_date)
    /\ ~(Truthy(q.practitioner_id) /\ slot.practitioner_id # q.practitioner_id)
    /\ ~(slot.id \in DOMAIN res)

\* self._slots.values(): the slot records in insertion order
Values(sl) == [i \in 1..Cardinality(DOMAIN sl) |-> sl[i]]

\* an unstable sort: x goes before the elements of equal key
RECURSIVE Insert_unstable(_, _)
Insert_unstable(sorted, x) ==
    IF sorted = << >> THEN << x >>
    ELSE LET y == sorted[Len(sorted)]
         IN  IF y.start_time < x.start_time
             THEN Append(sorted, x)
             ELSE Append(Insert_unstable(SubSeq(sorted, 1, Len(sorted) - 1), x), y)

\* list.sort(key=start_time) is stable: x goes behind every element whose
\* key is not greater
RECURSIVE Insert(_, _)
Insert(sorted, x) ==
    IF sorted = << >> THEN << x >>
    ELSE LET y == sorted[Len(sorted)]
         IN  IF y.start_time <= x.start_time
             THEN Append(sorted, x)
             ELSE Append(Insert(SubSeq(sorted, 1, Len(sorted) - 1), x), y)

RECURSIVE SortByStartTime(_)
SortByStartTime(results) ==
    IF results = << >> THEN << >>
    ELSE Insert(SortByStartTime(SubSeq(results, 1, Len(results) - 1)),
                results[Len(results)])

\* a slice one element too long: results[offset : offset + limit + 1]
Slice_one_more(results, offset, limit) ==
    SubSeq(results, offset + 1, Min(offset + limit + 1, Len(results)))

\* results[offset : offset + limit]
Slice(results, offset, limit) ==
    SubSeq(results, offset + 1, Min(offset + limit, Len(results)))

\* the sorted, filtered sequence before the slice
Filtered(sl, res, q) ==
    LET Keep(slot) == Selected(slot, res, q)
    IN  SortByStartTime(SelectSeq(Values(sl), Keep))

get_availabilities(sl, res, t, q) ==
    LET swept == _cleanup_expired_reservations(res, t)
    IN  [ ret |-> Slice(Filtered(sl, swept, q), q.offset, q.limit),
          reservations |-> swept ]

\* an Optional value: None is the empty sequence, a value v the sequence <<v>>
Nothing == << >>
Some(v) == << v >>

get_slot(sl, slot_id) == IF slot_id \in DOMAIN sl THEN Some(sl[slot_id]) ELSE Nothing

\* check_availability without the test of the stored flag
check_availability_noflag(sl, res, t, slot_id) ==
    LET swept == _cleanup_expired_reservations(res, t)
    IN  [ ret |-> IF slot_id \notin DOMAIN sl THEN FALSE
                  ELSE IF slot_id \in DOMAIN swept THEN FALSE
                  ELSE TRUE,
          reservations |-> swept ]

check_availability(sl, res, t, slot_id) ==
    LET swept == _cleanup_expired_reservations(res, t)
    IN  [ ret |-> IF slot_id \notin DOMAIN sl THEN FALSE
                  ELSE IF ~sl[slot_id].is_available THEN FALSE
                  ELSE IF slot_id \in DOMAIN swept THEN FALSE
                  ELSE TRUE,
          reservations |-> swept ]

\* reserve_slot without the test for an existing reservation
reserve_slot_unchecked(sl, res, t, slot_id, duration_seconds) ==
    LET swept == _cleanup_expired_reservations(res, t)
    IN  IF slot_id \notin DOMAIN sl THEN [ret |-> Nothing, reservations |-> swept]
        ELSE IF ~sl[slot_id].is_available THEN [ret |-> Nothing, reservations |-> swept]
        ELSE [ ret |-> Some(t + duration_seconds),
               reservations |-> With(swept, slot_id, t + duration_seconds) ]

\* reserve_slot holding for the default 300 seconds whatever is asked
reserve_slot_default_hold(sl, res, t, slot_id, duration_seconds) ==
    LET swept == _cleanup_expired_reservations(res, t)
    IN  IF slot_id \in DOMAIN swept THEN [ret |-> Nothing, reservations |-> swept]
        ELSE IF slot_id \notin DOMAIN sl THEN [ret |-> Nothing, reservations |-> swept]
        ELSE IF ~sl[slot_id].is_available THEN [ret |-> Nothing, reservations |-> swept]
        ELSE [ ret |-> Some(t + 300),
               reservations |-> With(swept, slot_id, t + 300) ]

\* reserve_slot renewing the hold of a slot that is held
reserve_slot_extends(sl, res, t, slot_id, duration_seconds) ==
    LET swept == _cleanup_expired_reservations(res, t)
    IN  IF slot_id \in DOMAIN swept
        THEN [ret |-> Nothing, reservations |-> With(swept, slot_id, t + duration_seconds)]
        ELSE IF slot_id \notin DOMAIN sl THEN [ret |-> Nothing, reservations |-> swept]
        ELSE IF ~sl[slot_id].is_available THEN [ret |-> Nothing, reservations |-> swept]
        ELSE [ ret |-> Some(t + duration_seconds),
               reservations |-> With(swept, slot_id, t + duration_seconds) ]

reserve_slot(sl, res, t, slot_id, duration_seconds) ==
    LET swept == _cleanup_expired_reservations(res, t)
    IN  IF slot_id \in DOMAIN swept THEN [ret |-> Nothing, reservations |-> swept]
        ELSE IF slot_id \notin DOMAIN sl THEN [ret |-> Nothing, reservations |-> swept]
        ELSE IF ~sl[slot_id].is_available THEN [ret |-> Nothing, reservations |-> swept]
        ELSE [ ret |-> Some(t + duration_seconds),
               reservations |-> With(swept, slot_id, t + duration_seconds) ]

\* release_slot refusing to remove the entry
release_slot_refuses(res, slot_id) == [ret |-> FALSE, reservations |-> res]

\* release_slot reporting success whether or not an entry was removed
release_slot_always_true(res, slot_id) ==
    IF slot_id \in DOMAIN res
    THEN [ret |-> TRUE, reservations |-> Without(res, slot_id)]
    ELSE [ret |-> TRUE, reservations |-> res]

release_slot(res, slot_id) ==
    IF slot_id \in DOMAIN res
    THEN [ret |-> TRUE, reservations |-> Without(res, slot_id)]
    ELSE [ret |-> FALSE, reservations |-> res]

\* book_slot that books only a slot that has a reservation
book_slot_requires_hold(sl, res, slot_id) ==
    IF slot_id \in DOMAIN sl /\ slot_id \in DOMAIN res
    THEN [ ret |-> TRUE,
           slots |-> [sl EXCEPT ![slot_id].is_available = FALSE],
           reservations |-> Without(res, slot_id) ]
    ELSE [ret |-> FALSE, slots |-> sl, reservations |-> res]

\* book_slot that reports success for a slot that is not in the catalog
book_slot_always_true(sl, res, slot_id) ==
    IF slot_id \in DOMAIN sl
    THEN [ ret |-> TRUE,
           slots |-> [sl EXCEPT ![slot_id].is_available = FALSE],
           reservations |-> IF slot_id \in DOMAIN res THEN Without(res, slot_id) ELSE res ]
    ELSE [ret |-> TRUE, slots |-> sl, reservations |-> res]

\* book_slot that refuses a slot whose flag is already false
book_slot_once(sl, res, slot_id) ==
    IF slot_id \in DOMAIN sl /\ sl[slot_id].is_available
    THEN [ ret |-> TRUE,
           slots |-> [sl EXCEPT ![slot_id].is_available = FALSE],
           reservations |-> IF slot_id \in DOMAIN res THEN Without(res, slot_id) ELSE res ]
    ELSE [ret |-> FALSE, slots |-> sl, reservations |-> res]

\* book_slot clearing the motive of the slot it books
book_slot_clears_motive(sl, res, slot_id) ==
    IF slot_id \in DOMAIN sl
    THEN [ ret |-> TRUE,
           slots |-> [sl EXCEPT ![slot_id].is_available = FALSE, ![slot_id].motive_id = None],
           reservations |-> IF slot_id \in DOMAIN res THEN Without(res, slot_id) ELSE res ]
    ELSE [ret |-> FALSE, slots |-> sl, reservations |-> res]

book_slot(sl, res, slot_id) ==
    IF slot_id \in DOMAIN sl
    THEN [ ret |-> TRUE,
           slots |-> [sl EXCEPT ![slot_id].is_available = FALSE],
           reservations |-> IF slot_id \in DOMAIN res THEN Without(res, slot_id) ELSE res ]
    ELSE [ret |-> FALSE, slots |-> sl, reservations |-> res]

----------------------------------------------------------------------------
(* Requests *)

\* the search windows asked for: all slots, the first slot time alone,
\* everything after the first slot time
Windows ==
    { <<0, 1440 * NumDays>>, <<Times[1], Times[1]>>, <<Times[1] + 1, 1440 * NumDays>> }

\* the first and the last motive and practitioner of the catalog, one that is
\* in no slot, and no practitioner (absent, or empty)
QueryMotives == {Motives[1][1], Motives[Len(Motives)][1], "unknown_motive"}
QueryPractitioners == {Practs[1][2], Practs[Len(Practs)][2], "dr-nobody", None, ""}

Query(m, w, p, l, o) ==
    [ motive_id |-> m, start_date |-> w[1], end_date |-> w[2],
      practitioner_id |-> p, limit |-> l, offset |-> o ]

\* every filter, unpaginated (the endpoint's largest limit holds the catalog)
FilterQueries ==
    { Query(m, w, p, 20, 0) : m \in QueryMotives, w \in Windows, p \in QueryPractitioners }

\* the pages of the first motive's slots
PageQueries ==
    { Query(Motives[1][1], <<0, 1440 * NumDays>>, None, l, o) : l \in 1..2, o \in 0..2 }

Queries == FilterQueries \cup PageQueries

\* the searches of the dialogue: a motive, the default page of 5
DialogueQueries ==
    { Query(m, <<0, 1440 * NumDays>>, None, 5, 0) : m \in {Motives[1][1], "unknown_motive"} }

NoRace == [slot |-> None]

\* the tasks; no task holds the lock; a task that handles no request
Tasks == 1..NumTasks
NoTask == 0
IdleTask == [pc |-> "idle"]

\* the service run in the process of the store above, without workers
OneProcess == << >>
NoCall == [pc |-> "idle"]

\* the history of the entries the ledger res holds
Owners(own, res) == [x \in DOMAIN res |-> own[x]]

Init ==
    /\ slots = initialize
    /\ reservations = << >>
    /\ now = 0
    /\ last = [op |-> "startup"]
    /\ bk = [c \in Clients |-> NoCall]
    /\ race = NoRace
    /\ owner = << >>
    /\ everBooked = {}
    /\ stale = {}
    /\ initialized = TRUE
    /\ lock = NoTask
    /\ tasks = [k \in Tasks |-> IdleTask]
    /\ workers = OneProcess
    /\ booking_log = << >>

----------------------------------------------------------------------------
(* Endpoints: one action per handler *)

\* GET /api/v1/availabilities
GetAvailabilitiesEndpoint(q) ==
    LET r == get_availabilities(slots, reservations, now, q)
    IN  /\ reservations' = r.reservations
        /\ owner' = Owners(owner, r.reservations)
        /\ last' = [ op |-> "search", query |-> q, status |-> 200,
                     slots |-> r.ret, total |-> Len(r.ret),
                     motive_id |-> q.motive_id ]
        /\ UNCHANGED <<booking_log, sched, slots, now, bk, race, everBooked, stale>>

\* what GET /api/v1/availabilities/{slot_id} does to the store and answers
GetSlotHandler(sl, res, t, slot_id) ==
    LET slot == get_slot(sl, slot_id)
        c == check_availability(sl, res, t, slot_id)
    IN  IF slot = Nothing
        THEN [ status |-> 404, slots |-> sl, reservations |-> res ]
        ELSE [ status |-> 200,
               slots |-> [sl EXCEPT ![slot_id].is_available = c.ret],
               reservations |-> c.reservations ]

GetSlotResponse(h, slot_id) ==
    IF h.status = 404
    THEN [op |-> "get", slot_id |-> slot_id, status |-> 404]
    ELSE [op |-> "get", slot_id |-> slot_id, status |-> 200, slot |-> h.slots[slot_id]]

\* GET /api/v1/availabilities/{slot_id}
GetSlotEndpoint(slot_id) ==
    LET h == GetSlotHandler(slots, reservations, now, slot_id)
    IN  /\ slots' = h.slots
        /\ reservations' = h.reservations
        /\ owner' = Owners(owner, h.reservations)
        /\ last' = GetSlotResponse(h, slot_id)
        /\ UNCHANGED <<booking_log, sched, now, bk, race, everBooked, stale>>

\* AvailabilityStore.check_availability called on the store
CheckAvailability(slot_id) ==
    LET c == check_availability(slots, reservations, now, slot_id)
    IN  /\ reservations' = c.reservations
        /\ owner' = Owners(owner, c.reservations)
        /\ last' = [op |-> "check", slot_id |-> slot_id, ret |-> c.ret]
        /\ UNCHANGED <<booking_log, sched, slots, now, bk, race, everBooked, stale>>

\* the answer of POST .../reserve to the store's result
ReserveResponse(r, slot_id) ==
    IF r.ret = Nothing
    THEN [op |-> "reserve", slot_id |-> slot_id, status |-> 409]
    ELSE [op |-> "reserve", slot_id |-> slot_id, status |-> 200,
          success |-> TRUE, expires_at |-> r.ret[1]]

\* POST /api/v1/availabilities/{slot_id}/reserve, sent by caller c
ReserveSlotEndpoint(c, slot_id, duration) ==
    LET r == reserve_slot(slots, reservations, now, slot_id, duration)
    IN  /\ race = NoRace
        /\ reservations' = r.reservations
        /\ owner' = IF r.ret = Nothing THEN Owners(owner, r.reservations)
                    ELSE With(Owners(owner, Without(r.reservations, slot_id)), slot_id, c)
        /\ last' = ReserveResponse(r, slot_id)
        /\ UNCHANGED <<booking_log, sched, slots, now, bk, race, everBooked, stale>>

\* POST /api/v1/availabilities/{slot_id}/release
ReleaseSlotEndpoint(slot_id) ==
    LET r == release_slot(reservations, slot_id)
    IN  /\ race = NoRace
        /\ reservations' = r.reservations
        /\ owner' = Owners(owner, r.reservations)
        /\ last' = [op |-> "release", slot_id |-> slot_id, status |-> 200, success |-> r.ret]
        /\ UNCHANGED <<booking_log, sched, slots, now, bk, race, everBooked, stale>>

\* POST /api/v1/availabilities/{slot_id}/book, sent by caller c
BookSlotEndpoint(c, slot_id) ==
    LET r == book_slot(slots, reservations, slot_id)
    IN  /\ race = NoRace
        /\ slots' = r.slots
        /\ reservations' = r.reservations
        /\ owner' = Owners(owner, r.reservations)
        /\ everBooked' = IF r.ret THEN everBooked \cup {slot_id} ELSE everBooked
        /\ stale' = IF r.ret /\ slot_id \in DOMAIN owner /\ owner[slot_id] # c
                    THEN stale \cup {<<slot_id, owner[slot_id]>>}
                    ELSE stale
        /\ last' = IF r.ret
                   THEN [op |-> "book", slot_id |-> slot_id, status |-> 200, success |-> TRUE]
                   ELSE [op |-> "book", slot_id |-> slot_id, status |-> 400]
        /\ UNCHANGED <<booking_log, sched, now, bk, race>>

\* the clock advances
Tick ==
    /\ race = NoRace
    /\ now < MaxTime
    /\ now' = now + TickSeconds
    /\ last' = [op |-> "tick"]
    /\ UNCHANGED <<booking_log, sched, slots, reservations, bk, race, owner, everBooked, stale>>

----------------------------------------------------------------------------
(* The dialogue side: AvailabilityService and BookingService *)

\* check_slot_availability taking a 404 for an available slot
check_slot_availability_404(h, slot_id) ==
    IF h.status = 404 THEN TRUE ELSE h.slots[slot_id].is_available

\* AvailabilityService.check_slot_availability on the answer of GET slot
check_slot_availability(h, slot_id) ==
    IF h.status = 404 THEN FALSE ELSE h.slots[slot_id].is_available

\* book_appointment without its except clause: the exception reaches the caller
BookingResult_raised(slot_id, success, error_code) ==
    IF error_code = "BOOKING_ERROR"
    THEN [op |-> "bookAppointment", slot_id |-> slot_id, raised |-> "Exception"]
    ELSE [ op |-> "bookAppointment", slot_id |-> slot_id,
           success |-> success,
           booking_id |-> IF success THEN "uuid4" ELSE None,
           error_code |-> error_code ]

\* the BookingResult values of book_appointment
BookingResult(slot_id, success, error_code) ==
    [ op |-> "bookAppointment", slot_id |-> slot_id,
      success |-> success,
      booking_id |-> IF success THEN "uuid4" ELSE None,
      error_code |-> error_code ]

\* get_motive_by_id(motive_id)["name"], "Consultation" for an unknown motive
motive_name(motive_id) ==
    IF \E i \in 1..Len(VISIT_MOTIVES) : VISIT_MOTIVES[i][1] = motive_id
    THEN VISIT_MOTIVE_NAMES[CHOOSE i \in 1..Len(VISIT_MOTIVES) : VISIT_MOTIVES[i][1] = motive_id]
    ELSE "Consultation"

\* AvailabilitySlot.formatted_time: day name, day, month name, HH:MM; the
\* date is the day offset from the base date
formatted_time(slot) ==
    [ weekday |-> Weekday(slot.start_time \div 1440),
      day |-> slot.start_time \div 1440,
      hour |-> (slot.start_time % 1440) \div 60,
      minute |-> slot.start_time % 60 ]

\* AvailabilitySlot.duration_minutes
duration_minutes(slot) == slot.end_time - slot.start_time

\* the patient whose appointment caller c books: first name, last name and
\* birthdate are those of the caller's dialogue
PatientOf(c) == [first_name |-> c, last_name |-> c, birthdate |-> c]

\* the lines of the "CALENDAR BOOKING LOG" of one booking
CalendarBookingLog(booking_id, patient, slot, motive_id) ==
    [ booking_id |-> booking_id,
      patient |-> <<patient.first_name, patient.last_name>>,
      birthdate |-> patient.birthdate,
      date_time |-> formatted_time(slot),
      practitioner |-> slot.practitioner_name,
      motive |-> motive_name(motive_id),
      duration |-> duration_minutes(slot) ]

\* a logger that keeps the latest record only
logger_info_rewrite(log, record) == << record >>

\* logger.info: the record goes behind the records written before
logger_info(log, record) == Append(log, record)

\* book_appointment, first call: "Verify slot is still available"
BookAppointmentCheck(c, slot_id) ==
    LET h == GetSlotHandler(slots, reservations, now, slot_id)
    IN  /\ race = NoRace
        /\ bk[c].pc = "idle"
        /\ Len(booking_log) < MaxLog
        /\ slots' = h.slots
        /\ reservations' = h.reservations
        /\ owner' = Owners(owner, h.reservations)
        /\ IF check_slot_availability(h, slot_id)
           THEN /\ bk' = [bk EXCEPT ![c] = [pc |-> "reserve", slot_id |-> slot_id]]
                /\ last' = GetSlotResponse(h, slot_id)
           ELSE /\ bk' = bk
                /\ last' = BookingResult(slot_id, FALSE, "SLOT_UNAVAILABLE")
        /\ UNCHANGED <<booking_log, sched, now, race, everBooked, stale>>

\* book_appointment, second call: "Reserve the slot", then the log and the result
BookAppointmentReserve(c) ==
    /\ race = NoRace
    /\ bk[c].pc = "reserve"
    /\ LET slot_id == bk[c].slot_id
           r == reserve_slot(slots, reservations, now, slot_id, ClientHold)
       IN  /\ reservations' = r.reservations
           /\ owner' = IF r.ret = Nothing THEN Owners(owner, r.reservations)
                       ELSE With(Owners(owner, Without(r.reservations, slot_id)), slot_id, c)
           /\ last' = IF r.ret = Nothing
                      THEN BookingResult(slot_id, FALSE, "RESERVATION_CONFLICT")
                      ELSE BookingResult(slot_id, TRUE, None)
           /\ everBooked' = IF r.ret = Nothing THEN everBooked ELSE everBooked \cup {slot_id}
           /\ booking_log' = IF r.ret = Nothing THEN booking_log
                             ELSE logger_info(booking_log,
                                     CalendarBookingLog("uuid4", PatientOf(c), slots[slot_id],
                                                        slots[slot_id].motive_id))
    /\ bk' = [bk EXCEPT ![c] = NoCall]
    /\ UNCHANGED <<sched, slots, now, race, stale>>

----------------------------------------------------------------------------
(* Failures during book_appointment.  A call of the availability service    *)
(* can fail with an HTTP error status or a transport error (the store is    *)
(* not changed), or with a timeout (the server has handled the request, its *)
(* answer is lost); AvailabilityService turns each of them into False.  An  *)
(* exception outside AvailabilityService's try blocks (_get_client), or in  *)
(* book_appointment after the reserve (motive, formatted_time, the log),    *)
(* reaches book_appointment's except clause.                                *)

ServiceFaults == {"http_error", "transport_error", "timeout"}
CheckFaults == ServiceFaults \cup {"internal"}
ReserveFaults == ServiceFaults \cup {"internal_before", "internal_after"}

\* book_appointment, first call, with a failure
BookAppointmentCheckFault(c, slot_id, fault) ==
    LET h == IF fault = "timeout"
             THEN GetSlotHandler(slots, reservations, now, slot_id)
             ELSE [slots |-> slots, reservations |-> reservations]
    IN  /\ race = NoRace
        /\ bk[c].pc = "idle"
        /\ slots' = h.slots
        /\ reservations' = h.reservations
        /\ owner' = Owners(owner, h.reservations)
        /\ last' = IF fault = "internal"
                   THEN BookingResult(slot_id, FALSE, "BOOKING_ERROR")
                   ELSE BookingResult(slot_id, FALSE, "SLOT_UNAVAILABLE")
        /\ UNCHANGED <<booking_log, sched, now, bk, race, everBooked, stale>>

\* book_appointment, second call and what follows, with a failure
BookAppointmentReserveFault(c, fault) ==
    /\ race = NoRace
    /\ bk[c].pc = "reserve"
    /\ LET slot_id == bk[c].slot_id
           r == IF fault \in {"timeout", "internal_after"}
                THEN reserve_slot(slots, reservations, now, slot_id, ClientHold)
                ELSE [ret |-> Nothing, reservations |-> reservations]
       IN  /\ reservations' = r.reservations
           /\ owner' = IF r.ret = Nothing THEN Owners(owner, r.reservations)
                       ELSE With(Owners(owner, Without(r.reservations, slot_id)), slot_id, c)
           /\ last' = IF fault = "internal_before" \/ (fault = "internal_after" /\ r.ret # Nothing)
                      THEN BookingResult(slot_id, FALSE, "BOOKING_ERROR")
                      ELSE BookingResult(slot_id, FALSE, "RESERVATION_CONFLICT")
    /\ bk' = [bk EXCEPT ![c] = NoCall]
    /\ UNCHANGED <<booking_log, sched, slots, now, race, everBooked, stale>>

\* AvailabilityService.release_slot: POST .../release, raise_for_status,
\* return True; the body of the answer is not read
ClientReleaseSlot(slot_id) ==
    LET r == release_slot(reservations, slot_id)
    IN  /\ race = NoRace
        /\ reservations' = r.reservations
        /\ owner' = Owners(owner, r.reservations)
        /\ last' = [op |-> "releaseSlot", slot_id |-> slot_id, fault |-> None, ret |-> TRUE]
        /\ UNCHANGED <<booking_log, sched, slots, now, bk, race, everBooked, stale>>

\* AvailabilityService.release_slot with a failure of the request: "except
\* Exception: return False"
ClientReleaseSlotFault(slot_id, fault) ==
    LET r == IF fault = "timeout"
             THEN release_slot(reservations, slot_id)
             ELSE [ret |-> FALSE, reservations |-> reservations]
    IN  /\ race = NoRace
        /\ reservations' = r.reservations
        /\ owner' = Owners(owner, r.reservations)
        /\ last' = [op |-> "releaseSlot", slot_id |-> slot_id, fault |-> fault, ret |-> FALSE]
        /\ UNCHANGED <<booking_log, sched, slots, now, bk, race, everBooked, stale>>

----------------------------------------------------------------------------
(* A burst of RaceSize reserve calls on one free slot, all in flight at    *)
(* once: the server handles them one after the other in any order, at one  *)
(* clock reading; reads may be served in between.                          *)

Calls == 1..RaceSize

RaceStart(slot_id) ==
    /\ race = NoRace
    /\ check_availability(slots, reservations, now, slot_id).ret
    /\ race' = [slot |-> slot_id, calls |-> [i \in Calls |-> "pending"]]
    /\ UNCHANGED <<booking_log, sched, slots, reservations, now, last, bk, owner, everBooked, stale>>

RaceReserve(i, c, duration) ==
    /\ race # NoRace
    /\ race.calls[i] = "pending"
    /\ LET slot_id == race.slot
           r == reserve_slot(slots, reservations, now, slot_id, duration)
       IN  /\ reservations' = r.reservations
           /\ owner' = IF r.ret = Nothing THEN Owners(owner, r.reservations)
                       ELSE With(Owners(owner, Without(r.reservations, slot_id)), slot_id, c)
           /\ last' = ReserveResponse(r, slot_id)
           /\ race' = [race EXCEPT !.calls[i] = IF r.ret = Nothing THEN "conflict" ELSE "success"]
    /\ UNCHANGED <<booking_log, sched, slots, now, bk, everBooked, stale>>

RaceEnd ==
    /\ race # NoRace
    /\ \A i \in Calls : race.calls[i] # "pending"
    /\ race' = NoRace
    /\ UNCHANGED <<booking_log, sched, slots, reservations, now, last, bk, owner, everBooked, stale>>

----------------------------------------------------------------------------
(* The validation of the requests, which FastAPI does before it calls the *)
(* endpoint function *)

MinLimit == 1             \* limit: Query(ge=1)
MaxLimit == 20            \* limit: Query(le=20)
MinDuration == 60         \* reservation_duration_seconds: Field(ge=60)
MaxDuration == 900        \* reservation_duration_seconds: Field(le=900)
DefaultDuration == 300    \* reservation_duration_seconds: Field(default=300)

ValidLimit(limit) == limit >= MinLimit /\ limit <= MaxLimit
ValidOffset(offset) == offset >= 0

\* the validation of the duration without its upper bound
ValidDuration_no_upper(duration) == duration >= MinDuration

ValidDuration(duration) == duration >= MinDuration /\ duration <= MaxDuration

\* the limits, offsets and durations that requests carry: the bounds of the
\* valid ranges and their neighbours
RawLimits == {MinLimit - 1, MinLimit, MaxLimit, MaxLimit + 1}
RawOffsets == {-1, 0}
RawDurations == {MinDuration - 1, MinDuration, MaxDuration, MaxDuration + 1}

\* the bodies of a reserve request: none (the default duration), or a duration
ReserveBodies == {Nothing} \cup {Some(d) : d \in RawDurations}

\* reservation_duration_seconds of the ReservationRequest built from a body
RequestedDuration(body) == IF body = Nothing THEN DefaultDuration ELSE body[1]

\* the answer to a request that the validation refuses
Unprocessable(op) == [op |-> op, status |-> 422]

\* GET /api/v1/availabilities as the client sends it
SearchRequest(limit, offset) ==
    IF ValidLimit(limit) /\ ValidOffset(offset)
    THEN GetAvailabilitiesEndpoint(Query(Motives[1][1], <<0, 1440 * NumDays>>, None,
                                          limit, offset))
    ELSE /\ last' = Unprocessable("search")
         /\ UNCHANGED <<booking_log, slots, reservations, now, bk, race, owner, everBooked, stale, sched>>

\* POST /api/v1/availabilities/{slot_id}/reserve as the client sends it
ReserveRequest(c, slot_id, body) ==
    IF ValidDuration(RequestedDuration(body))
    THEN ReserveSlotEndpoint(c, slot_id, RequestedDuration(body))
    ELSE /\ last' = Unprocessable("reserve")
         /\ UNCHANGED <<booking_log, slots, reservations, now, bk, race, owner, everBooked, stale, sched>>

\* the requests as they reach the service boundary, and the clock
NextBoundary ==
    \/ \E limit \in RawLimits, offset \in RawOffsets : SearchRequest(limit, offset)
    \/ \E c \in OneCaller, slot_id \in RequestIds, body \in ReserveBodies :
          ReserveRequest(c, slot_id, body)
    \/ Tick

SpecBoundary == Init /\ [][NextBoundary]_vars

----------------------------------------------------------------------------
(* The coroutines of AvailabilityStore, task by task.  A task runs until an  *)
(* await; every await of the store's methods (the sweep, the entry of        *)
(* "async with self._lock") is taken as a point where the event loop may run *)
(* another task, which allows at least the schedules asyncio produces.  The  *)
(* statements between two awaits run without interruption.                   *)

\* the requests a task handles
ReadOps == {"search", "check"}
WriteOps == {"reserve", "release", "book", "initialize"}
Ops == ReadOps \cup WriteOps

\* del self._reservations[slot_id]: KeyError when the key is absent
del_reservation(res, slot_id) ==
    IF slot_id \in DOMAIN res
    THEN [raised |-> FALSE, reservations |-> Without(res, slot_id)]
    ELSE [raised |-> TRUE, reservations |-> res]

\* a sweep that empties the ledger
sweep_everything(res, t) == [raised |-> FALSE, reservations |-> << >>]

\* _cleanup_expired_reservations, statement by statement: the list of the
\* expired keys, then a del for each of them
sweep(res, t) ==
    LET expired == {slot_id \in DOMAIN res : res[slot_id] < t}
    IN  [ raised |-> \E slot_id \in expired : del_reservation(res, slot_id).raised,
          reservations |-> [x \in DOMAIN res \ expired |-> res[x]] ]

\* one more population of the catalog: a slot per motive, day, practitioner
\* and time, each with a new id
populate(sl) ==
    sl \o [i \in 1..NumSlots |-> [SlotAt(i) EXCEPT !.id = Len(sl) + i]]

\* initialize under the lock, without the second test of the flag
initialize_locked_unchecked(init, sl) ==
    [early |-> FALSE, initialized |-> TRUE, slots |-> populate(sl)]

\* initialize under the lock
initialize_locked(init, sl) ==
    IF init
    THEN [early |-> TRUE, initialized |-> init, slots |-> sl]
    ELSE [early |-> FALSE, initialized |-> TRUE, slots |-> populate(sl)]

\* reserve_slot under the lock
reserve_slot_locked(sl, res, t, slot_id, duration_seconds) ==
    IF slot_id \in DOMAIN res THEN [early |-> TRUE, ret |-> Nothing, reservations |-> res]
    ELSE IF slot_id \notin DOMAIN sl THEN [early |-> TRUE, ret |-> Nothing, reservations |-> res]
    ELSE IF ~sl[slot_id].is_available THEN [early |-> TRUE, ret |-> Nothing, reservations |-> res]
    ELSE [ early |-> FALSE, ret |-> Some(t + duration_seconds),
           reservations |-> With(res, slot_id, t + duration_seconds) ]

\* release_slot under the lock, with a del that no test guards
release_slot_locked_unguarded(res, slot_id) ==
    LET d == del_reservation(res, slot_id)
    IN  [early |-> FALSE, raised |-> d.raised, ret |-> TRUE, reservations |-> d.reservations]

\* release_slot under the lock
release_slot_locked(res, slot_id) ==
    IF slot_id \in DOMAIN res
    THEN LET d == del_reservation(res, slot_id)
         IN  [early |-> FALSE, raised |-> d.raised, ret |-> TRUE, reservations |-> d.reservations]
    ELSE [early |-> TRUE, raised |-> FALSE, ret |-> FALSE, reservations |-> res]

\* book_slot under the lock
book_slot_locked(sl, res, slot_id) ==
    IF slot_id \in DOMAIN sl
    THEN LET d == IF slot_id \in DOMAIN res THEN del_reservation(res, slot_id)
                  ELSE [raised |-> FALSE, reservations |-> res]
         IN  [ early |-> FALSE, raised |-> d.raised, ret |-> TRUE,
               slots |-> [sl EXCEPT ![slot_id].is_available = FALSE],
               reservations |-> d.reservations ]
    ELSE [early |-> TRUE, raised |-> FALSE, ret |-> FALSE, slots |-> sl, reservations |-> res]

\* the lock when a block left by a return is not left: acquire and release
\* written by hand, without finally
async_with_exit_no_finally(k, early) == IF early THEN k ELSE NoTask

\* the lock when task k leaves "async with self._lock", by the end of the
\* block, by a return or by an exception
async_with_exit(k, early) == NoTask

\* the slot the requests of the tasks name; a task that has returned
TaskSlots == {slot_id \in Targets : \A x \in Targets : slot_id <= x}
DoneTask == [pc |-> "done"]

\* the search a task serves: the first motive, the default page
TaskQuery == Query(Motives[1][1], <<0, 1440 * NumDays>>, None, 5, 0)

\* the identifiers of the slots of get_availabilities' page: the selected
\* slots that fewer than offset + limit and at least offset selected slots
\* precede in the stable order of the start times
PageIds(sl, res, q) ==
    LET sel == {i \in DOMAIN sl : Selected(sl[i], res, q)}
        before(i) == {j \in sel : \/ sl[j].start_time < sl[i].start_time
                                  \/ sl[j].start_time = sl[i].start_time /\ j < i}
    IN  {sl[i].id : i \in {x \in sel : /\ Cardinality(before(x)) >= q.offset
                                       /\ Cardinality(before(x)) < q.offset + q.limit}}

\* the store before the start-up of the application has initialized it
InitTasks ==
    /\ slots = << >>
    /\ reservations = << >>
    /\ now = 0
    /\ last = [op |-> "startup"]
    /\ bk = [c \in Clients |-> NoCall]
    /\ race = NoRace
    /\ owner = << >>
    /\ everBooked = {}
    /\ stale = {}
    /\ initialized = FALSE
    /\ lock = NoTask
    /\ tasks = [k \in Tasks |-> IdleTask]
    /\ workers = OneProcess
    /\ booking_log = << >>

\* the event loop starts task k on a request
TaskBegin(k, op, slot_id) ==
    /\ tasks[k].pc \in {"idle", "done"}
    /\ tasks' = [tasks EXCEPT ![k] =
          [ pc |-> IF op \in {"search", "check", "reserve"} THEN "sweep"
                   ELSE IF op = "initialize" THEN "check_flag" ELSE "acquire",
            op |-> op, slot_id |-> slot_id, acquired |-> 0 ]]
    /\ UNCHANGED <<booking_log, slots, reservations, now, last, bk, race, owner, everBooked, stale,
                   initialized, lock, workers>>

\* await self._cleanup_expired_reservations()
TaskSweep(k) ==
    /\ tasks[k].pc = "sweep"
    /\ LET r == sweep(reservations, now)
       IN  /\ reservations' = r.reservations
           /\ last' = [ op |-> "task", request |-> "sweep",
                        removed |-> DOMAIN reservations \ DOMAIN r.reservations ]
           /\ tasks' = [tasks EXCEPT ![k].pc =
                 IF r.raised THEN "KeyError"
                 ELSE IF tasks[k].op = "reserve" THEN "acquire" ELSE "read"]
    /\ UNCHANGED <<booking_log, slots, now, bk, race, owner, everBooked, stale,
                   initialized, lock, workers>>

\* the rest of get_availabilities and of check_availability
TaskRead(k) ==
    /\ tasks[k].pc = "read"
    /\ last' = [ op |-> "task", request |-> tasks[k].op,
                 found |-> IF tasks[k].op = "search"
                           THEN PageIds(slots, reservations, TaskQuery)
                           ELSE {slot_id \in {tasks[k].slot_id} :
                                    /\ slot_id \in DOMAIN slots
                                    /\ slots[slot_id].is_available
                                    /\ slot_id \notin DOMAIN reservations} ]
    /\ tasks' = [tasks EXCEPT ![k] = DoneTask]
    /\ UNCHANGED <<booking_log, slots, reservations, now, bk, race, owner, everBooked, stale,
                   initialized, lock, workers>>

\* initialize: "if self._initialized: return" before the lock
TaskCheckFlag(k) ==
    /\ tasks[k].pc = "check_flag"
    /\ tasks' = [tasks EXCEPT ![k] = IF initialized THEN DoneTask
                                       ELSE [tasks[k] EXCEPT !.pc = "acquire"]]
    /\ UNCHANGED <<booking_log, slots, reservations, now, last, bk, race, owner, everBooked, stale,
                   initialized, lock, workers>>

\* the entry of "async with self._lock"
TaskAcquire(k) ==
    /\ tasks[k].pc = "acquire"
    /\ lock = NoTask
    /\ lock' = k
    /\ tasks' = [tasks EXCEPT ![k].pc = "locked", ![k].acquired = @ + 1]
    /\ UNCHANGED <<booking_log, slots, reservations, now, last, bk, race, owner, everBooked, stale,
                   initialized, workers>>

\* the block under the lock, and its exit
TaskLocked(k) ==
    /\ tasks[k].pc = "locked"
    /\ LET op == tasks[k].op
           slot_id == tasks[k].slot_id
           same == [ early |-> FALSE, raised |-> FALSE, ret |-> FALSE, slots |-> slots,
                     reservations |-> reservations, initialized |-> initialized ]
           b == IF op = "initialize"
                THEN LET r == initialize_locked(initialized, slots)
                     IN  [same EXCEPT !.early = r.early, !.slots = r.slots,
                                      !.initialized = r.initialized]
                ELSE IF op = "reserve"
                THEN LET r == reserve_slot_locked(slots, reservations, now, slot_id, ClientHold)
                     IN  [same EXCEPT !.early = r.early, !.ret = (r.ret # Nothing),
                                      !.reservations = r.reservations]
                ELSE IF op = "release"
                THEN LET r == release_slot_locked(reservations, slot_id)
                     IN  [same EXCEPT !.early = r.early, !.raised = r.raised, !.ret = r.ret,
                                      !.reservations = r.reservations]
                ELSE LET r == book_slot_locked(slots, reservations, slot_id)
                     IN  [same EXCEPT !.early = r.early, !.raised = r.raised, !.ret = r.ret,
                                      !.slots = r.slots, !.reservations = r.reservations]
       IN  /\ slots' = b.slots
           /\ reservations' = b.reservations
           /\ initialized' = b.initialized
           /\ lock' = async_with_exit(k, b.early)
           /\ last' = [op |-> "task", request |-> op, ret |-> b.ret]
           /\ tasks' = [tasks EXCEPT ![k] = IF b.raised
                                              THEN [tasks[k] EXCEPT !.pc = "KeyError"]
                                              ELSE DoneTask]
    /\ UNCHANGED <<booking_log, now, bk, race, owner, everBooked, stale, workers>>

\* the steps of task k once it has started
TaskStep(k) ==
    TaskSweep(k) \/ TaskRead(k) \/ TaskCheckFlag(k) \/ TaskAcquire(k) \/ TaskLocked(k)

\* the tasks of the event loop, and the clock
NextTasks ==
    \/ \E k \in Tasks, op \in Ops, slot_id \in TaskSlots : TaskBegin(k, op, slot_id)
    \/ \E k \in Tasks : TaskSweep(k)
    \/ \E k \in Tasks : TaskRead(k)
    \/ \E k \in Tasks : TaskCheckFlag(k)
    \/ \E k \in Tasks : TaskAcquire(k)
    \/ \E k \in Tasks : TaskLocked(k)
    \/ Tick

SpecTasks == InitTasks /\ [][NextTasks]_vars

\* the event loop runs every task that can run, and asyncio.Lock wakes its
\* waiters in the order of their arrival
SpecTasksFair ==
    /\ SpecTasks
    /\ \A k \in Tasks : WF_vars(TaskStep(k)) /\ SF_vars(TaskAcquire(k))

----------------------------------------------------------------------------

----------------------------------------------------------------------------
(* run_server starts uvicorn with the application as an import string and   *)
(* workers=4: each worker process imports the module, so each has its own   *)
(* AvailabilityStore, filled by its own initialize with its own uuid4       *)
(* identifiers.  A request is served by whichever worker accepts it.        *)

NumWorkers == 2         \* worker processes (workers=4 in run_server)

Workers == 1..NumWorkers

\* the catalog that worker w's initialize creates: the same slots as every
\* worker, under identifiers of its own
WorkerCatalog(w) ==
    [slot_id \in {(w - 1) * NumSlots + i : i \in 1..NumSlots} |->
        [SlotAt(slot_id - (w - 1) * NumSlots) EXCEPT !.id = slot_id]]

\* the identifiers that requests name: the first slot of each worker's catalog
WorkerTargets == {(w - 1) * NumSlots + 1 : w \in Workers}

InitWorkers ==
    /\ slots = initialize
    /\ reservations = << >>
    /\ now = 0
    /\ last = [op |-> "startup"]
    /\ bk = [c \in Clients |-> NoCall]
    /\ race = NoRace
    /\ owner = << >>
    /\ everBooked = {}
    /\ stale = {}
    /\ initialized = TRUE
    /\ lock = NoTask
    /\ tasks = [k \in Tasks |-> IdleTask]
    /\ workers = [w \in Workers |-> [slots |-> WorkerCatalog(w), reservations |-> << >>]]
    /\ booking_log = << >>

\* check_availability of the store of worker w
WorkerCheck(w, slot_id) ==
    LET c == check_availability(workers[w].slots, workers[w].reservations, now, slot_id)
    IN  /\ workers' = [workers EXCEPT ![w].reservations = c.reservations]
        /\ last' = [op |-> "check", worker |-> w, slot_id |-> slot_id, ret |-> c.ret]
        /\ UNCHANGED <<booking_log, slots, reservations, now, bk, race, owner, everBooked, stale,
                       initialized, lock, tasks>>

\* POST .../reserve served by worker w
WorkerReserve(w, slot_id, duration) ==
    LET r == reserve_slot(workers[w].slots, workers[w].reservations, now, slot_id, duration)
    IN  /\ workers' = [workers EXCEPT ![w].reservations = r.reservations]
        /\ last' = [ op |-> "reserve", worker |-> w, slot_id |-> slot_id,
                     status |-> IF r.ret = Nothing THEN 409 ELSE 200 ]
        /\ UNCHANGED <<booking_log, slots, reservations, now, bk, race, owner, everBooked, stale,
                       initialized, lock, tasks>>

\* POST .../book served by worker w
WorkerBook(w, slot_id) ==
    LET r == book_slot(workers[w].slots, workers[w].reservations, slot_id)
    IN  /\ workers' = [workers EXCEPT ![w] = [slots |-> r.slots, reservations |-> r.reservations]]
        /\ last' = [ op |-> "book", worker |-> w, slot_id |-> slot_id,
                     status |-> IF r.ret THEN 200 ELSE 400 ]
        /\ UNCHANGED <<booking_log, slots, reservations, now, bk, race, owner, everBooked, stale,
                       initialized, lock, tasks>>

NextWorkers ==
    \/ \E w \in Workers, slot_id \in WorkerTargets : WorkerCheck(w, slot_id)
    \/ \E w \in Workers, slot_id \in WorkerTargets, d \in Holds : WorkerReserve(w, slot_id, d)
    \/ \E w \in Workers, slot_id \in WorkerTargets : WorkerBook(w, slot_id)
    \/ Tick

SpecWorkers == InitWorkers /\ [][NextWorkers]_vars

\* the requests of the service, all sent by one caller, and the clock
NextStore ==
    \/ \E q \in DialogueQueries : GetAvailabilitiesEndpoint(q)
    \/ \E slot_id \in RequestIds : GetSlotEndpoint(slot_id)
    \/ \E slot_id \in RequestIds : CheckAvailability(slot_id)
    \/ \E c \in OneCaller, slot_id \in RequestIds, d \in Holds : ReserveSlotEndpoint(c, slot_id, d)
    \/ \E slot_id \in RequestIds : ReleaseSlotEndpoint(slot_id)
    \/ \E c \in OneCaller, slot_id \in RequestIds : BookSlotEndpoint(c, slot_id)
    \/ Tick

Next == NextStore

Spec == Init /\ [][Next]_vars

\* the dialogue side's bookAppointment calls, with the requests of other
\* callers that change the store, and the clock
NextBooking ==
    \/ \E c \in Clients, slot_id \in RequestIds : BookAppointmentCheck(c, slot_id)
    \/ \E c \in Clients : BookAppointmentReserve(c)
    \/ \E c \in Clients, slot_id \in Targets, d \in Holds : ReserveSlotEndpoint(c, slot_id, d)
    \/ \E slot_id \in Targets : ReleaseSlotEndpoint(slot_id)
    \/ \E c \in Clients, slot_id \in Targets : BookSlotEndpoint(c, slot_id)
    \/ Tick

SpecBooking == Init /\ [][NextBooking]_vars

\* bookAppointment calls of several callers in flight at once, all served at
\* one reading of the clock, with no other request
NextConcurrent ==
    \/ \E c \in Clients, slot_id \in Targets : BookAppointmentCheck(c, slot_id)
    \/ \E c \in Clients : BookAppointmentReserve(c)

SpecConcurrent == Init /\ [][NextConcurrent]_vars

\* reserve, release and book requests of several callers, and the clock
NextOwners ==
    \/ \E c \in Clients, slot_id \in Targets, d \in Holds : ReserveSlotEndpoint(c, slot_id, d)
    \/ \E slot_id \in Targets : ReleaseSlotEndpoint(slot_id)
    \/ \E c \in Clients, slot_id \in Targets : BookSlotEndpoint(c, slot_id)
    \/ Tick

SpecOwners == Init /\ [][NextOwners]_vars

\* the bookAppointment calls of one caller, which the failures may hit, with
\* the books of every caller, and the clock
NextFaults ==
    \/ \E c \in OneCaller, slot_id \in RequestIds : BookAppointmentCheck(c, slot_id)
    \/ \E c \in OneCaller : BookAppointmentReserve(c)
    \/ \E c \in OneCaller, slot_id \in RequestIds, fault \in CheckFaults :
          BookAppointmentCheckFault(c, slot_id, fault)
    \/ \E c \in OneCaller, fault \in ReserveFaults : BookAppointmentReserveFault(c, fault)
    \/ \E c \in Clients, slot_id \in Targets : BookSlotEndpoint(c, slot_id)
    \/ Tick

SpecFaults == Init /\ [][NextFaults]_vars

\* the dialogue side's releaseSlot calls, with the reserve requests and the
\* clock
NextRelease ==
    \/ \E slot_id \in RequestIds : ClientReleaseSlot(slot_id)
    \/ \E slot_id \in RequestIds, fault \in ServiceFaults : ClientReleaseSlotFault(slot_id, fault)
    \/ \E c \in OneCaller, slot_id \in RequestIds, d \in Holds : ReserveSlotEndpoint(c, slot_id, d)
    \/ Tick

SpecRelease == Init /\ [][NextRelease]_vars

\* bursts of concurrent reserve calls, between the requests that change the
\* store
NextRace ==
    \/ \E slot_id \in Targets : RaceStart(slot_id)
    \/ \E i \in Calls, c \in OneCaller, d \in Holds : RaceReserve(i, c, d)
    \/ RaceEnd
    \/ \E slot_id \in Targets : GetSlotEndpoint(slot_id)
    \/ \E c \in OneCaller, slot_id \in Targets, d \in Holds : ReserveSlotEndpoint(c, slot_id, d)
    \/ \E slot_id \in Targets : ReleaseSlotEndpoint(slot_id)
    \/ \E c \in OneCaller, slot_id \in Targets : BookSlotEndpoint(c, slot_id)
    \/ Tick

SpecRace == Init /\ [][NextRace]_vars

\* the service searched with every query
NextSearch ==
    \/ \E q \in Queries : GetAvailabilitiesEndpoint(q)
    \/ \E c \in OneCaller, slot_id \in Targets, d \in Holds : ReserveSlotEndpoint(c, slot_id, d)
    \/ \E c \in OneCaller, slot_id \in Targets : BookSlotEndpoint(c, slot_id)
    \/ Tick

SpecSearch == Init /\ [][NextSearch]_vars

TypeOK ==
    /\ DOMAIN slots = 1..NumSlots
    /\ DOMAIN reservations \subseteq 1..NumSlots
    /\ now \in 0..(MaxTime + TickSeconds)
    /\ DOMAIN owner = DOMAIN reservations

----------------------------------------------------------------------------
(* Vocabulary of the properties, stated on the store's fields *)

\* slot_id has a reservation that the time t has not passed
Live(res, t, slot_id) == slot_id \in DOMAIN res /\ res[slot_id] >= t

\* slot_id is free: in the catalog, not booked, not held
Free(sl, res, t, slot_id) ==
    /\ slot_id \in DOMAIN sl
    /\ sl[slot_id].is_available
    /\ ~Live(res, t, slot_id)

\* the slot identifiers of a sequence of slot summaries
Ids(summaries) == {summaries[i].id : i \in 1..Len(summaries)}

----------------------------------------------------------------------------
\* C1 Mutual exclusion of reserve: of the concurrent reserve calls of a burst
\* on one free slot, handled in any order, exactly one is answered success as
\* soon as one is answered, and every other answered call is a conflict; when
\* all RaceSize calls are answered there are one success and RaceSize - 1
\* conflicts.
C1_MutualExclusion ==
    race # NoRace =>
        LET done == {i \in Calls : race.calls[i] # "pending"}
            won  == {i \in Calls : race.calls[i] = "success"}
            lost == {i \in Calls : race.calls[i] = "conflict"}
        IN  /\ done # {} => Cardinality(won) = 1
            /\ lost = done \ won
            /\ done = Calls => Cardinality(lost) = RaceSize - 1

\* a burst whose calls are all answered
C1_Witness ==
    /\ race # NoRace
    /\ RaceSize >= 2
    /\ \A i \in Calls : race.calls[i] # "pending"
    /\ \E i \in Calls : race.calls[i] = "success"
    /\ \E i \in Calls : race.calls[i] = "conflict"

\* C2 Result of reserve: the reserve endpoint answers 409 without an expiry,
\* and places no reservation, when the slot is not in the catalog, when its
\* availability flag is false or when it has a live reservation; in every other
\* case it answers 200 with expiry now + d and the ledger holds that expiry for
\* the slot.
C2_ReserveResult ==
    [][\A c \in OneCaller, slot_id \in RequestIds, d \in Holds :
         ReserveSlotEndpoint(c, slot_id, d) =>
            IF \/ slot_id \notin DOMAIN slots
               \/ ~slots[slot_id].is_available
               \/ Live(reservations, now, slot_id)
            THEN /\ last'.status = 409
                 /\ "expires_at" \notin DOMAIN last'
                 /\ slot_id \in DOMAIN reservations' =>
                        /\ slot_id \in DOMAIN reservations
                        /\ reservations'[slot_id] = reservations[slot_id]
            ELSE /\ last'.status = 200
                 /\ last'.success
                 /\ last'.expires_at = now + d
                 /\ slot_id \in DOMAIN reservations'
                 /\ reservations'[slot_id] = now + d]_vars

\* a reserve answered with the expiry of a 600 second hold
C2_Witness ==
    /\ last.op = "reserve"
    /\ last.status = 200
    /\ last.expires_at = now + 600
    /\ last.slot_id \in DOMAIN reservations
    /\ reservations[last.slot_id] = last.expires_at

\* C3 Booked is terminal: no step of the service (search, get slot,
\* checkAvailability, reserve, release, book, the clock) turns a stored
\* availability flag that is false back to true.
C3_BookedIsTerminal ==
    [][\A slot_id \in DOMAIN slots :
         ~slots[slot_id].is_available => ~slots'[slot_id].is_available]_vars

\* get slot has been served for a slot booked before
C3_Witness ==
    /\ last.op = "get"
    /\ last.status = 200
    /\ last.slot_id \in everBooked
    /\ ~slots[last.slot_id].is_available
    /\ ~last.slot.is_available

----------------------------------------------------------------------------
(* What a request served now would observe of a slot *)

\* the unpaginated search for the slot's motive, any time, any practitioner
MatchingQuery(slot_id) ==
    Query(slots[slot_id].motive_id, <<0, 1440 * NumDays>>, None, 20, 0)

ObservedFree(sl, res, t, slot_id) ==
    /\ check_availability(sl, res, t, slot_id).ret
    /\ slot_id \in Ids(get_availabilities(sl, res, t, MatchingQuery(slot_id)).ret)
    /\ reserve_slot(sl, res, t, slot_id, ClientHold).ret # Nothing

ObservedHeld(sl, res, t, slot_id) ==
    /\ ~check_availability(sl, res, t, slot_id).ret
    /\ \A q \in Queries : slot_id \notin Ids(get_availabilities(sl, res, t, q).ret)
    /\ reserve_slot(sl, res, t, slot_id, ClientHold).ret = Nothing

----------------------------------------------------------------------------
\* C4 Booking re-verification: when caller A has reserved slot S and another
\* caller has booked S, removing A's hold, A's subsequent book of S fails: the
\* book endpoint does not answer 200, and bookAppointment returns
\* SLOT_UNAVAILABLE or RESERVATION_CONFLICT.
C4_BookReverified ==
    [][\A c \in Clients, slot_id \in Targets :
         <<slot_id, c>> \in stale =>
            /\ BookSlotEndpoint(c, slot_id) => last'.status # 200
            /\ BookAppointmentCheck(c, slot_id) =>
                  /\ last'.op = "bookAppointment"
                  /\ ~last'.success
                  /\ last'.error_code \in {"SLOT_UNAVAILABLE", "RESERVATION_CONFLICT"}]_vars

\* C5 A successful booking is permanent: a slot for which a booking operation
\* (the book endpoint, bookAppointment) has reported success has its flag false
\* and no reservation, is in no search result, is not available to
\* checkAvailability and cannot be reserved, from then on.
C5_BookingPermanent ==
    \A slot_id \in everBooked :
        /\ ~slots[slot_id].is_available
        /\ slot_id \notin DOMAIN reservations
        /\ ObservedHeld(slots, reservations, now, slot_id)

\* C6 Held -> Free on release: after the release of a slot that is held and was
\* not booked, the slot is free: checkAvailability is true, the slot is in the
\* matching search and a new reserve succeeds, whatever was read during the hold.
C6_ReleaseFrees ==
    [][\A slot_id \in Targets :
         ( /\ ReleaseSlotEndpoint(slot_id)
           /\ Live(reservations, now, slot_id)
           /\ slot_id \notin everBooked )
         => /\ last'.success
            /\ ObservedFree(slots', reservations', now', slot_id)]_vars

\* C7 Expiry correctness: a slot whose reservation has not reached its expiry
\* is observed as held by every operation; a slot whose reservation has passed
\* its expiry and was never released nor booked is observed as free by every
\* operation, whatever was read during the hold.
C7_ExpiryCorrectness ==
    \A slot_id \in Targets :
        slot_id \in DOMAIN reservations =>
            /\ reservations[slot_id] > now =>
                   ObservedHeld(slots, reservations, now, slot_id)
            /\ (reservations[slot_id] < now /\ slot_id \notin everBooked) =>
                   ObservedFree(slots, reservations, now, slot_id)

\* C8 Idempotent release: the release endpoint never errors and leaves no
\* reservation for the slot; for a slot without reservation, or an identifier
\* that is not in the catalog, it answers false and leaves catalog and ledger
\* unchanged (so every release repeated after a release answers false).
C8_IdempotentRelease ==
    [][\A slot_id \in RequestIds :
         ReleaseSlotEndpoint(slot_id) =>
            /\ last'.status = 200
            /\ slot_id \notin DOMAIN reservations'
            /\ slot_id \notin DOMAIN reservations =>
                  /\ ~last'.success
                  /\ slots' = slots
                  /\ reservations' = reservations]_vars

\* release answered false for a catalog slot without reservation, another slot
\* being held
C8_Witness ==
    /\ last.op = "release"
    /\ ~last.success
    /\ last.slot_id \in DOMAIN slots
    /\ last.slot_id \notin DOMAIN reservations
    /\ DOMAIN reservations # {}

\* C9 Search filtering is sound and complete: the unpaginated result of a search
\* holds, once each, exactly the catalog slots whose flag is true, whose motive
\* is the queried one, whose start time is in the closed window, whose
\* practitioner is the queried one when one is given, and which have no live
\* reservation at query time.
C9_SearchFilter ==
    (last.op = "search" /\ last.query \in FilterQueries) =>
        LET q == last.query
            given == q.practitioner_id \notin {None, ""}
            expected ==
                { i \in DOMAIN slots :
                    /\ slots[i].is_available
                    /\ slots[i].motive_id = q.motive_id
                    /\ q.start_date <= slots[i].start_time
                    /\ slots[i].start_time <= q.end_date
                    /\ given => slots[i].practitioner_id = q.practitioner_id
                    /\ ~Live(reservations, now, i) }
        IN  /\ Ids(last.slots) = expected
            /\ Len(last.slots) = Cardinality(expected)
            /\ \A k \in 1..Len(last.slots) : last.slots[k] = slots[last.slots[k].id]

\* a search by practitioner that returns a slot of that practitioner and leaves
\* out another one, which is held
C9_Witness ==
    /\ last.op = "search"
    /\ last.query \in FilterQueries
    /\ last.query.practitioner_id = Practs[1][2]
    /\ last.slots # << >>
    /\ \E i \in DOMAIN slots :
          /\ slots[i].motive_id = last.query.motive_id
          /\ slots[i].practitioner_id = last.query.practitioner_id
          /\ Live(reservations, now, i)
          /\ i \notin Ids(last.slots)

\* C10 Search ordering: a search result is non-decreasing by start time, and
\* slots of equal start time are in creation order.
C10_SearchOrder ==
    last.op = "search" =>
        \A i, j \in 1..Len(last.slots) :
            i < j =>
               \/ last.slots[i].start_time < last.slots[j].start_time
               \/ /\ last.slots[i].start_time = last.slots[j].start_time
                  /\ last.slots[i].id < last.slots[j].id

\* a result with two slots of equal start time, and with a slot created later
\* placed before one created earlier
C10_Witness ==
    /\ last.op = "search"
    /\ \E i, j \in 1..Len(last.slots) :
          i < j /\ last.slots[i].start_time = last.slots[j].start_time
    /\ \E i, j \in 1..Len(last.slots) :
          i < j /\ last.slots[i].id > last.slots[j].id

----------------------------------------------------------------------------
(* Two searches in a row *)

\* the time that passes between the two calls: none, or one step of the clock
Delays == {0, TickSeconds}

\* the query of the page that follows the page of q
NextPage(q) == [q EXCEPT !.offset = q.offset + q.limit]

\* the page of the last search and the following page, asked for delay seconds
\* later on the store as the last search left it, are disjoint and make up the
\* segment [O, O+2L) of the sorted filtered sequence
PagesConsistent(delay) ==
    LET q == last.query
        second == get_availabilities(slots, reservations, now + delay, NextPage(q)).ret
        seq == Filtered(slots, _cleanup_expired_reservations(reservations, now), q)
    IN  /\ Ids(last.slots) \cap Ids(second) = {}
        /\ last.slots \o second =
              SubSeq(seq, q.offset + 1, Min(q.offset + 2 * q.limit, Len(seq)))

\* C11 Pagination consistency, as stated: with no book, reserve or release
\* between the two calls, whatever time passes between them, the pages
\* (L, O) and (L, O+L) are disjoint and their concatenation is the segment
\* [O, O+2L) of the sorted filtered sequence.
C11_PaginationAnyDelay ==
    (last.op = "search" /\ last.query \in PageQueries) =>
        \A delay \in Delays : PagesConsistent(delay)

\* C11 Pagination consistency, amended: with no book, reserve or release
\* between the two calls and no reservation expiring between them, the pages
\* (L, O) and (L, O+L) are disjoint and their concatenation is the segment
\* [O, O+2L) of the sorted filtered sequence.
C11_Pagination ==
    (last.op = "search" /\ last.query \in PageQueries) =>
        \A delay \in Delays :
            (\A slot_id \in DOMAIN reservations : reservations[slot_id] >= now + delay)
                => PagesConsistent(delay)

\* a first page and a following page, both with a slot, asked for one step of
\* the clock apart while a hold lasts
C11_Witness ==
    /\ last.op = "search"
    /\ last.query \in PageQueries
    /\ last.slots # << >>
    /\ reservations # << >>
    /\ \A slot_id \in DOMAIN reservations : reservations[slot_id] >= now + TickSeconds
    /\ get_availabilities(slots, reservations, now + TickSeconds,
                          NextPage(last.query)).ret # << >>

\* C12 Search total: the total of a search response is the number of slots
\* that match the query's filters, whatever limit and offset are; the response
\* carries the ordered page of these slots and echoes the motive.
C12_SearchTotal ==
    last.op = "search" =>
        LET seq == Filtered(slots, reservations, last.query)
        IN  /\ last.total = Len(seq)
            /\ last.slots = SubSeq(seq, last.query.offset + 1,
                                   Min(last.query.offset + last.query.limit, Len(seq)))
            /\ last.motive_id = last.query.motive_id

\* no slot of the catalog carries the motive
NoSlotCarries(sl, motive_id) == \A i \in DOMAIN sl : sl[i].motive_id # motive_id

\* the entries of the ledger that the time t has not passed
LiveEntries(res, t) == [x \in {y \in DOMAIN res : Live(res, t, y)} |-> res[x]]

\* C13 Absent data is not an error for search, as stated: a search for a
\* motive that no catalog slot carries answers 200 with an empty list and
\* total 0, and changes no state: the catalog and the ledger are as before.
C13_AbsentMotiveNoChange ==
    [][\A q \in DialogueQueries :
         (NoSlotCarries(slots, q.motive_id) /\ GetAvailabilitiesEndpoint(q)) =>
            /\ last'.status = 200
            /\ last'.slots = << >>
            /\ last'.total = 0
            /\ slots' = slots
            /\ reservations' = reservations]_vars

\* C13 Absent data is not an error for search, amended: a search for a motive
\* that no catalog slot carries answers 200 with an empty list and total 0,
\* and changes no catalog slot and no live reservation; of the ledger it
\* removes the expired reservations, as every search does.
C13_AbsentMotive ==
    [][\A q \in DialogueQueries :
         (NoSlotCarries(slots, q.motive_id) /\ GetAvailabilitiesEndpoint(q)) =>
            /\ last'.status = 200
            /\ last'.slots = << >>
            /\ last'.total = 0
            /\ slots' = slots
            /\ reservations' = LiveEntries(reservations, now)]_vars

\* a search for an unknown motive answered with nothing, a slot being held
C13_Witness ==
    /\ last.op = "search"
    /\ NoSlotCarries(slots, last.query.motive_id)
    /\ last.status = 200
    /\ last.slots = << >>
    /\ last.total = 0
    /\ reservations # << >>

\* C14 Availability check: checkAvailability(S) is true if and only if S is in
\* the catalog, has not been booked and has no live reservation; Get slot
\* answers 404 for an unknown identifier and otherwise a summary whose
\* is_available is what checkAvailability(S) returns at that instant.
C14_AvailabilityCheck ==
    /\ last.op = "check" =>
          last.ret = ( /\ last.slot_id \in DOMAIN slots
                       /\ last.slot_id \notin everBooked
                       /\ ~Live(reservations, now, last.slot_id) )
    /\ last.op = "get" =>
          IF last.slot_id \notin DOMAIN slots
          THEN last.status = 404
          ELSE /\ last.status = 200
               /\ last.slot.id = last.slot_id
               /\ last.slot.is_available =
                     check_availability(slots, reservations, now, last.slot_id).ret

\* C15 Catalog frame: only the booking transition changes a stored slot: every
\* slot record is the one created at start-up, with its flag false exactly if
\* a book of the slot has succeeded; a slot that is held and not booked has
\* flag true in the catalog.
C15_CatalogFrame ==
    /\ slots = [i \in DOMAIN initialize |->
                   [initialize[i] EXCEPT !.is_available = (i \notin everBooked)]]
    /\ \A slot_id \in DOMAIN reservations :
          slot_id \notin everBooked => slots[slot_id].is_available

\* C16 Book from Free or Held: the book of a catalog slot that was not booked
\* succeeds whether or not the slot has a reservation, and leaves the slot
\* with flag false and without reservation.
C16_BookFromFreeOrHeld ==
    [][\A c \in OneCaller, slot_id \in RequestIds :
         ( /\ slot_id \in DOMAIN slots
           /\ slot_id \notin everBooked
           /\ BookSlotEndpoint(c, slot_id) )
         => /\ last'.status = 200
            /\ last'.success
            /\ ~slots'[slot_id].is_available
            /\ slot_id \notin DOMAIN reservations']_vars

\* a book has succeeded at a time when another slot is held: the booked slot
\* has flag false and no reservation
C16_Witness ==
    /\ last.op = "book"
    /\ last.status = 200
    /\ ~slots[last.slot_id].is_available
    /\ last.slot_id \notin DOMAIN reservations
    /\ reservations # << >>

\* C17 Book on a missing slot: the book of an identifier that is not in the
\* catalog fails (the store returns false, the endpoint answers 400) and leaves
\* catalog and ledger unchanged.
C17_BookMissing ==
    [][\A c \in OneCaller, slot_id \in RequestIds :
         (slot_id \notin DOMAIN slots /\ BookSlotEndpoint(c, slot_id)) =>
            /\ ~book_slot(slots, reservations, slot_id).ret
            /\ last'.status = 400
            /\ "success" \notin DOMAIN last'
            /\ slots' = slots
            /\ reservations' = reservations
            /\ everBooked' = everBooked]_vars

\* the book of an unknown identifier answered 400, a slot being held and
\* another booked
C17_Witness ==
    /\ last.op = "book"
    /\ last.slot_id \notin DOMAIN slots
    /\ last.status = 400
    /\ reservations # << >>
    /\ everBooked # {}

\* C18 markBooked is idempotent: the store's book on a slot that a book has
\* already booked returns true and leaves catalog and ledger as the first
\* book left them.
C18_BookIdempotent ==
    \A slot_id \in everBooked :
        book_slot(slots, reservations, slot_id) =
            [ret |-> TRUE, slots |-> slots, reservations |-> reservations]

\* a slot has been booked, and the book endpoint answers 200 for it
C18_Witness ==
    /\ last.op = "book"
    /\ last.status = 200
    /\ last.slot_id \in everBooked
    /\ ~slots[last.slot_id].is_available
    /\ book_slot(slots, reservations, last.slot_id).ret

----------------------------------------------------------------------------
(* What bookAppointment gives back *)

\* r is a BookingResult that bookAppointment returned
Returned(r) ==
    /\ r.op = "bookAppointment"
    /\ DOMAIN r = {"op", "slot_id", "success", "booking_id", "error_code"}
    /\ r.success \in BOOLEAN

\* the failed BookingResult with the error code
Failed(slot_id, error_code) ==
    [ op |-> "bookAppointment", slot_id |-> slot_id, success |-> FALSE,
      booking_id |-> None, error_code |-> error_code ]

\* C19 bookAppointment never raises: whichever failure hits a call of the
\* availability service (HTTP error, transport error, timeout) or the booking
\* operation itself, the call ends with a BookingResult, which is a failed one
\* after a failure; after an internal fault it has the code BOOKING_ERROR.
C19_NeverRaises ==
    [][\A c \in OneCaller :
         /\ \A slot_id \in RequestIds :
               BookAppointmentCheck(c, slot_id) =>
                   (bk'[c].pc = "reserve" \/ Returned(last'))
         /\ BookAppointmentReserve(c) => Returned(last')
         /\ \A slot_id \in RequestIds, fault \in CheckFaults :
               BookAppointmentCheckFault(c, slot_id, fault) =>
                   /\ Returned(last')
                   /\ ~last'.success
                   /\ fault = "internal" => last'.error_code = "BOOKING_ERROR"
         /\ \A fault \in ReserveFaults :
               BookAppointmentReserveFault(c, fault) =>
                   /\ Returned(last')
                   /\ ~last'.success
                   /\ ( \/ fault = "internal_before"
                        \/ /\ fault = "internal_after"
                           /\ Free(slots, reservations, now, bk[c].slot_id) )
                      => last'.error_code = "BOOKING_ERROR"]_vars

\* a call ended with BOOKING_ERROR after its reserve had placed the hold
C19_Witness ==
    /\ Returned(last)
    /\ last = Failed(last.slot_id, "BOOKING_ERROR")
    /\ last.slot_id \in DOMAIN reservations
    /\ reservations[last.slot_id] = now + ClientHold

\* C20 BookingResult shape and error codes: a result has success, a booking id
\* and no error code, or failure, no booking id and an error code.  The
\* availability check is negative (the slot is not free, or the call of the
\* service failed) exactly when the call ends there with SLOT_UNAVAILABLE,
\* without a reserve; after a positive check the reserve step fails exactly
\* when the call ends with RESERVATION_CONFLICT, and succeeds exactly when the
\* call ends with success.
C20_BookingResult ==
    [][/\ last'.op = "bookAppointment" =>
             /\ Returned(last')
             /\ last'.success => (last'.booking_id # None /\ last'.error_code = None)
             /\ ~last'.success => (last'.booking_id = None /\ last'.error_code # None)
       /\ \A c \in OneCaller :
             /\ \A slot_id \in RequestIds :
                   BookAppointmentCheck(c, slot_id) =>
                       IF Free(slots, reservations, now, slot_id)
                       THEN /\ bk'[c] = [pc |-> "reserve", slot_id |-> slot_id]
                            /\ last'.op # "bookAppointment"
                       ELSE /\ last' = Failed(slot_id, "SLOT_UNAVAILABLE")
                            /\ bk'[c] = NoCall
                            /\ \A x \in DOMAIN reservations' :
                                   x \in DOMAIN reservations /\ reservations'[x] = reservations[x]
             /\ \A slot_id \in RequestIds, fault \in ServiceFaults :
                   BookAppointmentCheckFault(c, slot_id, fault) =>
                       /\ last' = Failed(slot_id, "SLOT_UNAVAILABLE")
                       /\ bk'[c] = NoCall
                       /\ \A x \in DOMAIN reservations' :
                              x \in DOMAIN reservations /\ reservations'[x] = reservations[x]
             /\ BookAppointmentReserve(c) =>
                   IF Free(slots, reservations, now, bk[c].slot_id)
                   THEN /\ last'.success
                        /\ last'.slot_id = bk[c].slot_id
                        /\ reservations'[bk[c].slot_id] = now + ClientHold
                   ELSE last' = Failed(bk[c].slot_id, "RESERVATION_CONFLICT")
             /\ \A fault \in ServiceFaults :
                   BookAppointmentReserveFault(c, fault) =>
                       last' = Failed(bk[c].slot_id, "RESERVATION_CONFLICT")]_vars

\* a call ended with RESERVATION_CONFLICT because the slot was booked between
\* its check and its reserve
C20_Witness ==
    /\ last.op = "bookAppointment"
    /\ last = Failed(last.slot_id, "RESERVATION_CONFLICT")
    /\ last.slot_id \in everBooked
    /\ last.slot_id \notin DOMAIN reservations

----------------------------------------------------------------------------
(* Tasks and processes *)

\* the catalog sl holds the slots of one population, booked or not
OnePopulation(sl) ==
    /\ Len(sl) = NumSlots
    /\ \A i \in 1..NumSlots : [sl[i] EXCEPT !.is_available = TRUE] = initialize[i]

\* C21 Catalog initialization is idempotent: however the initialize calls of
\* the tasks follow or overlap each other, the catalog is empty until the
\* first population and holds exactly the slots of one population from then
\* on: a later call creates and removes no slot.
C21_InitializeOnce ==
    /\ ~initialized => slots = << >>
    /\ initialized => OnePopulation(slots)
    /\ last.op = "task" /\ last.request = "initialize" => OnePopulation(slots)

\* the catalog is populated while a task that found the flag false is still
\* on its way into the lock
C21_Witness ==
    /\ initialized
    /\ OnePopulation(slots)
    /\ \E k \in Tasks :
          /\ tasks[k].pc \in {"acquire", "locked"}
          /\ tasks[k].op = "initialize"

\* C22 Boundary validation: a search with limit outside 1..20 or offset < 0
\* and a reserve with a duration outside 60..900 are answered 422 and leave
\* catalog and ledger as they are, expired reservations included; every
\* reservation that a step creates expires between 60 and 900 seconds after
\* the time of the step.
C22_BoundaryValidation ==
    [][/\ \A limit \in RawLimits, offset \in RawOffsets :
             ( /\ ~(limit \in 1..20 /\ offset >= 0)
               /\ SearchRequest(limit, offset) )
             => /\ last'.status = 422
                /\ slots' = slots
                /\ reservations' = reservations
       /\ \A c \in OneCaller, slot_id \in RequestIds, body \in ReserveBodies :
             ( /\ RequestedDuration(body) \notin 60..900
               /\ ReserveRequest(c, slot_id, body) )
             => /\ last'.status = 422
                /\ slots' = slots
                /\ reservations' = reservations
       /\ \A slot_id \in DOMAIN reservations' :
             ( \/ slot_id \notin DOMAIN reservations
               \/ reservations'[slot_id] # reservations[slot_id] )
             => reservations'[slot_id] - now \in 60..900]_vars

\* a reserve refused by the validation has left an expired reservation in the
\* ledger
C22_Witness ==
    /\ last = Unprocessable("reserve")
    /\ \E slot_id \in DOMAIN reservations : reservations[slot_id] < now

\* C23 Client release result: releaseSlot returns a boolean; without a failure
\* of the request it returns true exactly when the ledger had a reservation
\* for the slot, which the call removed, and false when there was nothing to
\* release; when the request fails it returns false.
C23_ClientRelease ==
    [][\A slot_id \in RequestIds :
          /\ ClientReleaseSlot(slot_id)
             => /\ last'.ret \in BOOLEAN
                /\ last'.ret = (slot_id \in DOMAIN reservations
                                /\ slot_id \notin DOMAIN reservations')
          /\ \A fault \in ServiceFaults :
                ClientReleaseSlotFault(slot_id, fault) => last'.ret = FALSE]_vars

\* C24 Unknown outcome on timeout: no bookAppointment call returns a failure
\* result while a hold that the call placed itself is live on the slot; the
\* step that ends a call with a failure, a timeout or transport failure of the
\* reserve request included, has not placed a reservation on the slot.
C24_NoFailureWithOwnHold ==
    [][\A c \in OneCaller :
          ( /\ bk[c].pc = "reserve"
            /\ \/ BookAppointmentReserve(c)
               \/ \E fault \in ReserveFaults : BookAppointmentReserveFault(c, fault)
            /\ ~last'.success )
          => ~( /\ bk[c].slot_id \in DOMAIN reservations'
                /\ reservations'[bk[c].slot_id] > now
                /\ \/ bk[c].slot_id \notin DOMAIN reservations
                   \/ reservations'[bk[c].slot_id] # reservations[bk[c].slot_id] )]_vars

\* C25 Single shared state: the workers of the service operate on one catalog
\* and one ledger; a reservation that a request has made through one worker
\* is in the ledger that every worker reads, and a booking that a request has
\* made through one worker is in the catalog that every worker reads.
C25_SharedState ==
    [][\A w \in Workers, slot_id \in WorkerTargets :
          /\ ( /\ \E d \in Holds : WorkerReserve(w, slot_id, d)
               /\ last'.status = 200 )
             => \A x \in Workers :
                   /\ slot_id \in DOMAIN workers'[x].reservations
                   /\ workers'[x].reservations[slot_id] = workers'[w].reservations[slot_id]
          /\ ( /\ WorkerBook(w, slot_id)
               /\ last'.status = 200 )
             => \A x \in Workers :
                   /\ slot_id \in DOMAIN workers'[x].slots
                   /\ ~workers'[x].slots[slot_id].is_available]_vars

----------------------------------------------------------------------------
(* The sweep *)

\* C26 Sweep boundary: immediately after the sweep of a checkAvailability at
\* time now, the ledger has no reservation whose expiry is at or before now,
\* and every reservation whose expiry is after now is still there.
C26_SweepBoundary ==
    [][\A slot_id \in RequestIds :
          CheckAvailability(slot_id)
          => /\ \A x \in DOMAIN reservations' : reservations'[x] > now
             /\ \A x \in DOMAIN reservations :
                   reservations[x] > now
                   => x \in DOMAIN reservations' /\ reservations'[x] = reservations[x]]_vars

\* C27 No stale hold is observable: a release of a slot whose reservation has
\* expired (its expiry is before now), swept or not, answers success = false,
\* as it does for a slot without reservation.
C27_NoStaleHold ==
    [][\A slot_id \in RequestIds :
          ( /\ slot_id \in DOMAIN reservations
            /\ reservations[slot_id] < now
            /\ ReleaseSlotEndpoint(slot_id) )
          => ~last'.success]_vars

\* C28 A failed reserve is a no-op: a reserve answered 409 leaves the catalog
\* as it is and the ledger as it is but for the expired reservations, which it
\* removes; a live reservation of the slot keeps its expiry.
C28_FailedReserveNoOp ==
    [][\A c \in OneCaller, slot_id \in RequestIds, d \in Holds :
          ( /\ ReserveSlotEndpoint(c, slot_id, d)
            /\ last'.status = 409 )
          => /\ slots' = slots
             /\ reservations' = LiveEntries(reservations, now)
             /\ Live(reservations, now, slot_id)
                => /\ slot_id \in DOMAIN reservations'
                   /\ reservations'[slot_id] = reservations[slot_id]]_vars

\* a reserve has been refused for a slot whose hold has time left, and to
\* which a renewal at this time could have given another expiry
C28_Witness ==
    /\ last.op = "reserve"
    /\ last.status = 409
    /\ last.slot_id \in DOMAIN reservations
    /\ reservations[last.slot_id] > now
    /\ \E d \in Holds : reservations[last.slot_id] # now + d

----------------------------------------------------------------------------
(* Concurrent tasks of one process *)

\* C29 Sweeps are safe under concurrency: whatever the interleaving of the
\* tasks, no sweep, release or book ends with the error of removing a
\* reservation that another task has removed (KeyError); the later removal is
\* a no-op.
C29_SweepsSafe ==
    \A k \in Tasks : tasks[k].pc # "KeyError"

\* a sweep has removed the expired reservation of a slot while the release or
\* book of another task for that slot waits for the lock
C29_Witness ==
    /\ last.op = "task"
    /\ last.request = "sweep"
    /\ \E k \in Tasks :
          /\ tasks[k].pc = "acquire"
          /\ tasks[k].op \in {"release", "book"}
          /\ tasks[k].slot_id \in last.removed
          /\ tasks[k].slot_id \notin DOMAIN reservations

\* the request task k is handling, if any, is one of ops
InFlight(k, ops) ==
    /\ tasks[k].pc \notin {"idle", "done"}
    /\ tasks[k].op \in ops

\* C30 Reads never block writers: search and checkAvailability never acquire
\* the store lock; reserve, release, book and initialize acquire it at most
\* once each, the lock is held by exactly the task that is inside its block
\* and is free once the task has left it; and under fair scheduling every
\* reserve, release and book that has started completes.
C30_ReadsNeverBlockWriters ==
    /\ [](\A k \in Tasks :
             /\ lock = k <=> tasks[k].pc = "locked"
             /\ InFlight(k, ReadOps) => tasks[k].acquired = 0
             /\ InFlight(k, WriteOps) => tasks[k].acquired <= 1
             /\ tasks[k].pc = "locked" => tasks[k].op \in WriteOps /\ tasks[k].acquired = 1)
    /\ \A k \in Tasks :
          InFlight(k, {"reserve", "release", "book"}) ~> tasks[k].pc = "done"

\* a reserve, release or book waits for the lock that another task holds
C30_Witness ==
    \E k, h \in Tasks :
       /\ tasks[k].pc = "acquire"
       /\ tasks[k].op \in {"reserve", "release", "book"}
       /\ tasks[h].pc = "locked"
       /\ lock = h

----------------------------------------------------------------------------
(* The booking log *)

\* C31 Audit log: the step that ends a bookAppointment call with success =
\* true appends one record (booking id, patient name, birthdate, slot time,
\* practitioner, motive, duration) of that booking to the log; a step that
\* ends a call with success = false, and every other step, leaves the log as
\* it is; no step changes or removes a record written before.
C31_AuditLog ==
    [][/\ Len(booking_log') >= Len(booking_log)
       /\ SubSeq(booking_log', 1, Len(booking_log)) = booking_log
       /\ \A c \in OneCaller :
             ( /\ bk[c].pc = "reserve"
               /\ \/ BookAppointmentReserve(c)
                  \/ \E fault \in ReserveFaults : BookAppointmentReserveFault(c, fault) )
             => IF last'.success
                THEN /\ Len(booking_log') = Len(booking_log) + 1
                     /\ LET record == booking_log'[Len(booking_log')]
                            slot == slots[bk[c].slot_id]
                        IN  /\ record.booking_id = last'.booking_id
                            /\ record.patient = <<PatientOf(c).first_name, PatientOf(c).last_name>>
                            /\ record.birthdate = PatientOf(c).birthdate
                            /\ record.date_time = formatted_time(slot)
                            /\ record.practitioner = slot.practitioner_name
                            /\ record.motive = motive_name(slot.motive_id)
                            /\ record.duration = slot.end_time - slot.start_time
                ELSE booking_log' = booking_log
       /\ (~(\E c \in OneCaller : bk[c].pc = "reserve" /\ bk'[c].pc = "idle"))
          => booking_log' = booking_log]_vars

\* a second booking has been logged behind the first
C31_Witness ==
    /\ Len(booking_log) = 2
    /\ last.op = "bookAppointment"
    /\ last.success

----------------------------------------------------------------------------
(* Concurrent bookAppointment calls *)

\* C32 Concurrent bookAppointment: of the bookAppointment calls in flight at
\* once on a free slot, whatever the order of their check and reserve steps,
\* exactly one returns success = true: a call returns success only when no
\* call has returned success for the slot before, and a call returns failure,
\* with SLOT_UNAVAILABLE or RESERVATION_CONFLICT, only when one has.
C32_ConcurrentBookAppointment ==
    [][\A c \in Clients :
          /\ \A slot_id \in Targets :
                ( /\ BookAppointmentCheck(c, slot_id)
                  /\ last'.op = "bookAppointment" )
                => /\ ~last'.success
                   /\ last'.error_code = "SLOT_UNAVAILABLE"
                   /\ slot_id \in everBooked
          /\ ( /\ bk[c].pc = "reserve"
               /\ BookAppointmentReserve(c) )
             => IF last'.success
                THEN bk[c].slot_id \notin everBooked
                ELSE /\ last'.error_code = "RESERVATION_CONFLICT"
                     /\ bk[c].slot_id \in everBooked]_vars

\* a call has lost at its reserve step: its check passed before the reserve
\* of the call that won
C32_Witness ==
    /\ last.op = "bookAppointment"
    /\ ~last.success
    /\ last.error_code = "RESERVATION_CONFLICT"
    /\ last.slot_id \in everBooked
    /\ Len(booking_log) = 1

\* C33 Held -> Booked through the consumed interface: a caller that holds
\* slot S by its own reserve, the hold not expired, the slot not booked, its
\* stored flag true and no other call in progress, and that calls
\* bookAppointment(S), passes the check and goes on to success = true.
C33_HeldToBooked ==
    [][\A c \in Clients, slot_id \in Targets :
          ( /\ slot_id \in DOMAIN reservations
            /\ reservations[slot_id] > now
            /\ owner[slot_id] = c
            /\ slots[slot_id].is_available
            /\ slot_id \notin everBooked
            /\ \A x \in Clients : bk[x].pc = "idle"
            /\ BookAppointmentCheck(c, slot_id) )
          => /\ last'.op # "bookAppointment"
             /\ bk'[c].pc = "reserve"]_vars

----------------------------------------------------------------------------
(* Ledger and catalog *)

\* C34 Ledger/catalog consistency: in every reachable state every reservation
\* of the ledger is for a slot of the catalog whose stored availability flag
\* is true; no slot whose flag is false has a reservation.
C34_LedgerCatalogConsistency ==
    \A slot_id \in DOMAIN reservations :
        /\ slot_id \in DOMAIN slots
        /\ slots[slot_id].is_available

\* C35 A sweep never removes a live hold: under every interleaving of the
\* tasks, a sweep keeps, with its expiry, every reservation whose expiry is
\* after the time of the sweep; it deletes only expired reservations.
C35_SweepKeepsLiveHolds ==
    [][\A k \in Tasks :
          ( /\ tasks[k].pc = "sweep"
            /\ TaskSweep(k) )
          => \A slot_id \in DOMAIN reservations :
                reservations[slot_id] > now
                => /\ slot_id \in DOMAIN reservations'
                   /\ reservations'[slot_id] = reservations[slot_id]]_vars

\* a sweep at a later time has found a live reservation and has kept it, while
\* a release or reserve of another task waits for the lock
C35_Witness ==
    /\ now > 0
    /\ last.op = "task"
    /\ last.request = "sweep"
    /\ last.removed = {}
    /\ \E slot_id \in DOMAIN reservations : reservations[slot_id] > now
    /\ \E k \in Tasks : tasks[k].pc = "acquire" /\ tasks[k].op \in {"release", "reserve"}

\* C36 Holds carry no owner: a release or a book of slot S removes the live
\* reservation of S whoever placed it and answers success, also to a caller
\* that did not place it.
C36_HoldsCarryNoOwner ==
    [][\A slot_id \in Targets :
          ( /\ slot_id \in DOMAIN reservations
            /\ reservations[slot_id] >= now )
          => /\ ReleaseSlotEndpoint(slot_id)
                => /\ last'.success
                   /\ slot_id \notin DOMAIN reservations'
             /\ \A c \in Clients :
                   ( /\ owner[slot_id] # c
                     /\ BookSlotEndpoint(c, slot_id) )
                   => /\ last'.status = 200
                      /\ last'.success
                      /\ slot_id \notin DOMAIN reservations']_vars

\* a book has removed the live hold of another caller
C36_Witness ==
    /\ last.op = "book"
    /\ last.status = 200
    /\ \E c \in Clients : <<last.slot_id, c>> \in stale
    /\ last.slot_id \notin DOMAIN reservations

\* C37 Slot identity is immutable: no request of the service adds or deletes a
\* catalog slot or changes a slot's identifier, start time, end time,
\* practitioner or motive; only the availability flag changes.
C37_SlotIdentity ==
    [][/\ DOMAIN slots' = DOMAIN slots
       /\ \A slot_id \in DOMAIN slots :
             [slots'[slot_id] EXCEPT !.is_available = slots[slot_id].is_available]
                = slots[slot_id]]_vars

\* a slot has been booked, and but for its flag it is the slot that initialize
\* created
C37_Witness ==
    /\ last.op = "book"
    /\ last.status = 200
    /\ ~slots[last.slot_id].is_available
    /\ [slots[last.slot_id] EXCEPT !.is_available = TRUE] = initialize[last.slot_id]

====
